---- MODULE Spec2Model ----
(***************************************************************************)
(* The two notebooks of cytomining/pipeline-examples as a state machine:   *)
(*   1.profile.py  cells In[4]..In[17]: platemap load, cell counts,        *)
(*                 aggregate, annotate, normalize, feature_select,         *)
(*                 consensus, each followed by a read-back of its file;    *)
(*   2.evaluate.py cells In[2]..In[10]: profile load, replicate            *)
(*                 reproducibility, enrichment, Cell Health load, feature  *)
(*                 selection, control barcodes, grit loop and merge.       *)
(* One action per notebook cell (the grit loop: one action per iteration   *)
(* and one for the merge).  The file system is shared by the notebooks.    *)
(* The statistics of pycytominer / cytominer-eval are not code of the      *)
(* repository; their contracts are taken from sections 4.1-4.6 of the      *)
(* specification and are marked as such where they are defined.            *)
(***************************************************************************)
EXTENDS Integers, Sequences, FiniteSets, TLC

VARIABLES pc1, err1, pc2, err2, fs, io, sqlite, platemap_df, frames,
          sel_stats, profile_df, evals, url_data, df, features,
          control_barcodes_cut, todo, grit_results

vars == <<pc1, err1, pc2, err2, fs, io, sqlite, platemap_df, frames,
          sel_stats, profile_df, evals, url_data, df, features,
          control_barcodes_cut, todo, grit_results>>

nb1vars == <<pc1, err1, sqlite, platemap_df, frames, sel_stats>>
nb2vars == <<pc2, err2, profile_df, evals, url_data, df, features,
             control_barcodes_cut, todo, grit_results>>

(***************************************************************************)
(* Bounds of the model.                                                    *)
(***************************************************************************)
\* rows of the platemap file
MaxPlatemapRows == 2
\* rows of the Cell Health table
MaxDfRows == 3
\* correlation levels 0..MaxCorr; a pair at level MaxCorr exceeds the cutoff
MaxCorr == 2
\* grit scores drawn from 1..MaxGrit (and missing)
MaxGrit == 2

(***************************************************************************)
(* Paths: 1.profile.py lines 42-61, 112, 123, 154, 183, 214, 253 and       *)
(* 2.evaluate.py line 35.  f-strings are string concatenation.             *)
(***************************************************************************)
data_dir == "data"
plate_id == "218360"
platemap == plate_id \o ".txt"
output_dir == "profiles"
platemap_file == data_dir \o "/" \o platemap
cell_count_file == output_dir \o "/" \o "cell_counts.tsv"
output_file == output_dir \o "/" \o plate_id \o ".csv.gz"
annotate_file == output_dir \o "/" \o plate_id \o "_augmented.csv.gz"
\* normalize_file without its suffix: the path of the annotate step
normalize_file_clash == annotate_file
normalize_file == output_dir \o "/" \o plate_id \o "_normalized.csv.gz"
feature_select_file == output_dir \o "/" \o plate_id \o "_normalized_feature_select.csv.gz"
consensus_file == output_dir \o "/" \o plate_id \o "_consensus.csv.gz"
\* profile_file naming the consensus file
profile_file_consensus == output_dir \o "/" \o plate_id \o "_consensus.csv.gz"
profile_file == "profiles/218360_normalized_feature_select.csv.gz"

Paths == {platemap_file, cell_count_file, output_file, annotate_file,
          normalize_file, feature_select_file, consensus_file, profile_file}

NoFile == [exists |-> FALSE]
Unset == [set |-> FALSE]
NA == "NA"
\* a value of a result table: missing, or present
Missing == [na |-> TRUE]
Val(x) == [na |-> FALSE, v |-> x]

(***************************************************************************)
(* Columns.  A column name is <<prefix, rest>>: "Cells_f1" is              *)
(* <<"Cells", "f1">>; the platemap's bare "treatment" is                   *)
(* <<"", "treatment">>.                                                    *)
(***************************************************************************)
compartments == {"Cells", "Cytoplasm", "Nuclei"}
strata == {<<"Metadata", "Plate">>, <<"Metadata", "Well">>}
FeatureSeq == << <<"Cells", "f1">>, <<"Cytoplasm", "f2">>, <<"Nuclei", "f3">> >>
FeatureUniverse == {FeatureSeq[i] : i \in DOMAIN FeatureSeq}
ColIndex(c) == CHOOSE i \in DOMAIN FeatureSeq : FeatureSeq[i] = c

WellSeq == <<"A01", "A02">>
Wells == {WellSeq[i] : i \in DOMAIN WellSeq}
Treatments == {"0.1% DMSO", "drug"}
Clones == {"WT"}
Values == {1, 2}

\* infer_cp_features(df): the columns whose prefix is a compartment.
infer_cp_features(cols) == {c \in cols : c[1] \in compartments}
\* infer_cp_features(df, metadata=True): the columns prefixed Metadata_.
infer_meta_features(cols) == {c \in cols : c[1] = "Metadata"}

\* A table: its columns and its rows, each row a function on the columns.
Table(cols, rows) == [exists |-> TRUE, cols |-> cols, rows |-> rows]
NRows(t) == Len(t.rows)
Frame(path, t) == [set |-> TRUE, from |-> path, table |-> t]

Restrict(f, S) == [x \in S |-> f[x]]
Merge2(f, g) == [x \in (DOMAIN f) \cup (DOMAIN g) |-> IF x \in DOMAIN f THEN f[x] ELSE g[x]]
Range(s) == {s[i] : i \in DOMAIN s}

RECURSIVE SumSeq(_)
SumSeq(s) == IF s = <<>> THEN 0 ELSE Head(s) + SumSeq(Tail(s))

RECURSIVE Concat(_)
Concat(ss) == IF ss = <<>> THEN <<>> ELSE Head(ss) \o Concat(Tail(ss))

\* The sequences over S of length at most n.
SeqUpTo(S, n) == UNION {[1..k -> S] : k \in 0..n}

\* The distinct values of a sequence in order of first appearance
\* (pandas Series.unique()).
RECURSIVE Unique(_)
Unique(s) == IF s = <<>> THEN <<>>
             ELSE LET u == Unique(SubSeq(s, 1, Len(s) - 1))
                  IN IF s[Len(s)] \in Range(u) THEN u ELSE Append(u, s[Len(s)])

Event(nb, cell, op, path) == [nb |-> nb, cell |-> cell, op |-> op, path |-> path]


(***************************************************************************)
(* Notebook 1, the library calls.                                          *)
(***************************************************************************)
sqlite_file == "sqlite:///" \o data_dir \o "/" \o plate_id \o ".sqlite"

\* cells.SingleCells(...): the options of lines 83-94 the model uses.
sc_data == [strata |-> strata, features |-> "infer",
            aggregation_operation |-> "median", subsample_frac |-> 1]

WellsWithCells(sq) == SelectSeq(WellSeq, LAMBDA w : sq.n[w] > 0)


\* sc_data.count_cells(): one row per well that holds cells.
count_cells(sq) ==
    LET ws == WellsWithCells(sq)
    IN Table(strata \cup {<<"", "cell_count">>},
             [i \in 1..Len(ws) |->
                 (<<"Metadata", "Plate">> :> plate_id) @@
                 (<<"Metadata", "Well">> :> ws[i]) @@
                 (<<"", "cell_count">> :> sq.n[ws[i]])])

\* sc_data.aggregate_profiles(): one row per stratification key, every
\* inferred feature column set to the aggregated (median) value.
aggregate_profiles(sq) ==
    LET ws == WellsWithCells(sq)
    IN Table(strata \cup FeatureUniverse,
             [i \in 1..Len(ws) |->
                 (<<"Metadata", "Plate">> :> plate_id) @@
                 (<<"Metadata", "Well">> :> ws[i]) @@
                 [c \in FeatureUniverse |-> sq.med[ws[i]]]])

\* DataFrame.merge(right, left_on=, right_on=) with the default how="inner":
\* for every left row, in order, one output row per right row whose key is
\* equal; a left row without a match yields none.
RECURSIVE JoinRows(_, _, _, _)
JoinRows(lrows, rrows, left_on, right_on) ==
    IF lrows = <<>> THEN <<>>
    ELSE LET l == Head(lrows)
             m == SelectSeq(rrows, LAMBDA r : r[right_on] = l[left_on])
         IN [i \in 1..Len(m) |-> Merge2(l, m[i])]
            \o JoinRows(Tail(lrows), rrows, left_on, right_on)

\* how="cross": every left row with every right row
merge_cross(left, right, left_on, right_on) ==
    Table(left.cols \cup right.cols,
          Concat([i \in 1..Len(left.rows) |->
                     [j \in 1..Len(right.rows) |-> Merge2(left.rows[i], right.rows[j])]]))
merge(left, right, left_on, right_on) ==
    Table(left.cols \cup right.cols, JoinRows(left.rows, right.rows, left_on, right_on))

\* annotate(): the platemap columns become Metadata_ columns (join_on names
\* Metadata_well_position for the platemap's well_position) and are joined
\* onto the matching profile rows; no match at all is an error.
PrefixMeta(t) ==
    LET cols == {<<"Metadata", c[2]>> : c \in t.cols}
    IN Table(cols, [i \in 1..Len(t.rows) |-> [c \in cols |-> t.rows[i][<<"", c[2]>>]]])

annotate_join_on == << <<"Metadata", "well_position">>, <<"Metadata", "Well">> >>

annotate(profiles, pmap, join_on) ==
    LET t == merge(profiles, PrefixMeta(pmap), join_on[2], join_on[1])
    IN IF t.rows = <<>> THEN [ok |-> FALSE] ELSE [ok |-> TRUE, table |-> t]

\* A row predicate: "all", or column == value.
AllSamples == [all |-> TRUE]
SamplesEq(col, val) == [all |-> FALSE, col |-> col, val |-> val]
Query(t, samples) ==
    IF samples.all THEN t.rows
    ELSE SelectSeq(t.rows, LAMBDA r : r[samples.col] = samples.val)

\* samples="all" and a predicate naming the wrong treatment
normalize_samples_all == AllSamples
normalize_samples_drug == SamplesEq(<<"Metadata", "treatment">>, "drug")
\* samples="Metadata_treatment == '0.1% DMSO'"
normalize_samples == SamplesEq(<<"Metadata", "treatment">>, "0.1% DMSO")
\* samples="all"
feature_select_samples == AllSamples

\* method="standardize": (x - mean) / std with the mean and the (population)
\* std of the reference values.  With n reference values of sum S and sum of
\* squares Q this is (n*x - S) / sqrt(n*Q - S*S); the quotient is kept as
\* the pair of its numerator and its squared denominator, and is not
\* defined when den2 = 0.
Standardize(x, ref) ==
    LET n == Len(ref)
        S == SumSeq(ref)
        Q == SumSeq([i \in 1..n |-> ref[i] * ref[i]])
    IN [num |-> n * x - S, den2 |-> n * Q - S * S]

ColumnOf(rows, c) == [i \in 1..Len(rows) |-> rows[i][c]]

\* normalize(): statistics of the reference subset, applied to every row;
\* an empty reference subset is an error.
normalize(profiles, samples, method) ==
    LET ref == Query(profiles, samples)
        feats == infer_cp_features(profiles.cols)
    IN IF ref = <<>> THEN [ok |-> FALSE]
       ELSE [ok |-> TRUE,
             table |-> Table(profiles.cols,
                 [i \in 1..Len(profiles.rows) |->
                     [c \in profiles.cols |->
                         IF c \in feats
                         THEN Standardize(profiles.rows[i][c], ColumnOf(ref, c))
                         ELSE profiles.rows[i][c]]])]

(***************************************************************************)
(* Feature selection.  What a selection rule measures on a table is drawn  *)
(* as an input: st.rule[c] names the per-column rule that rejects column c *)
(* ("none": no rule does), st.corr[{c, d}] is the level of the pairwise    *)
(* correlation of c and d, exceeding the cutoff at level MaxCorr.          *)
(***************************************************************************)
ColumnRules == {"variance_threshold", "drop_na_columns", "blocklist", "drop_outliers"}
Pairs(S) == {p \in SUBSET S : Cardinality(p) = 2}
StatsOver(S) == [rule : [S -> ColumnRules \cup {"none"}], corr : [Pairs(S) -> 0..MaxCorr]]

\* 1.profile.py lines 216-222
feature_select_opts == <<"variance_threshold", "drop_na_columns",
                         "correlation_threshold", "blocklist", "drop_outliers">>
\* 2.evaluate.py lines 136-142
feature_select_ops == <<"variance_threshold", "correlation_threshold",
                        "drop_na_columns", "blocklist", "drop_outliers">>

\* Sum of the correlation levels of c to the other columns of feats.
CorrSum(c, feats, st) ==
    SumSeq([i \in DOMAIN FeatureSeq |->
               IF FeatureSeq[i] \in feats \ {c} THEN st.corr[{c, FeatureSeq[i]}] ELSE 0])

\* Of a pair over the cutoff, the column with the higher mean correlation
\* to all others is dropped (the later column when they are equal).
Loses(c, d, feats, st) ==
    \/ CorrSum(c, feats, st) > CorrSum(d, feats, st)
    \/ /\ CorrSum(c, feats, st) = CorrSum(d, feats, st)
       /\ ColIndex(c) > ColIndex(d)

\* only the first column found over the cutoff is dropped
correlation_threshold_first(feats, st) ==
    LET over == {c \in feats : \E d \in feats \ {c} :
                    st.corr[{c, d}] = MaxCorr /\ Loses(c, d, feats, st)}
    IN {c \in over : \A d \in over : ColIndex(c) <= ColIndex(d)}

correlation_threshold(feats, st) ==
    {c \in feats : \E d \in feats \ {c} :
        st.corr[{c, d}] = MaxCorr /\ Loses(c, d, feats, st)}

\* The columns one operation drops from a table of feature columns feats.
Excluded(op, feats, st) ==
    IF op = "correlation_threshold" THEN correlation_threshold(feats, st)
    ELSE {c \in feats : st.rule[c] = op}

\* The operations in order, each on the table as reduced by the prior ones.
RECURSIVE SelectFeatures(_, _, _)
SelectFeatures(feats, st, ops) ==
    IF ops = <<>> THEN feats
    ELSE SelectFeatures(feats \ Excluded(Head(ops), feats, st), st, Tail(ops))

DropColumns(t, keep) ==
    Table(keep, [i \in 1..Len(t.rows) |-> Restrict(t.rows[i], keep)])

\* feature_select(profiles, features="infer", operation=ops)
feature_select(profiles, st, ops) ==
    LET feats == infer_cp_features(profiles.cols)
        kept == SelectFeatures(feats, st, ops)
    IN DropColumns(profiles, (profiles.cols \ feats) \cup kept)

(***************************************************************************)
(* Consensus: one row per distinct value of the replicate columns, in      *)
(* order of first appearance; a feature of the row is the modz combination *)
(* of the group's replicate values, kept as the operation and its          *)
(* arguments.                                                              *)
(***************************************************************************)
replicate_columns == {<<"Metadata", "clone_number">>, <<"Metadata", "treatment">>}

consensus(profiles, rep_cols, operation) ==
    LET feats == infer_cp_features(profiles.cols)
        keys == Unique([i \in 1..Len(profiles.rows) |-> Restrict(profiles.rows[i], rep_cols)])
        Group(k) == SelectSeq(profiles.rows, LAMBDA r : Restrict(r, rep_cols) = k)
    IN Table(rep_cols \cup feats,
             [g \in 1..Len(keys) |->
                 Merge2(keys[g],
                        [c \in feats |-> [op |-> operation, of |-> ColumnOf(Group(keys[g]), c)]])])

(***************************************************************************)
(* Notebook 1, the cells.  An exception that nothing catches ends the      *)
(* script: no later cell runs.                                             *)
(***************************************************************************)
\* the failed cell caught and run again
Raise1_retry(cell) == pc1' = cell /\ err1' = cell
Raise1(cell) == pc1' = "aborted" /\ err1' = cell
Goto1(cell) == pc1' = cell /\ err1' = err1

Log(events) == io' = io \o events
R1(cell, path) == Event(1, cell, "read", path)
W1(cell, path) == Event(1, cell, "write", path)

\* In[4]: platemap_df = pd.read_csv(platemap_file, sep="\t")
In4 ==
    /\ pc1 = "In4"
    /\ IF fs[platemap_file].exists
       THEN /\ platemap_df' = Frame(platemap_file, fs[platemap_file])
            /\ Goto1("In7")
       ELSE /\ Raise1("In4")
            /\ UNCHANGED platemap_df
    /\ Log(<<R1("In4", platemap_file)>>)
    /\ UNCHANGED <<fs, sqlite, frames, sel_stats, nb2vars>>

\* In[7]: count cells, merge with the platemap, write cell_counts.tsv
In7 ==
    /\ pc1 = "In7"
    /\ IF sqlite.exists
       THEN LET cell_count_df == merge(count_cells(sqlite), platemap_df.table,
                                       <<"Metadata", "Well">>, <<"", "well_position">>)
            IN /\ fs' = [fs EXCEPT ![cell_count_file] = cell_count_df]
               /\ frames' = [frames EXCEPT !.cell_count_df = Frame(sqlite_file, cell_count_df)]
               /\ Log(<<R1("In7", sqlite_file), W1("In7", cell_count_file)>>)
               /\ Goto1("In8")
       ELSE /\ Raise1("In7")
            /\ Log(<<R1("In7", sqlite_file)>>)
            /\ UNCHANGED <<fs, frames>>
    /\ UNCHANGED <<sqlite, platemap_df, sel_stats, nb2vars>>

\* In[8]: sc_data.aggregate_profiles(output_file=output_file, ...)
In8 ==
    /\ pc1 = "In8"
    /\ fs' = [fs EXCEPT ![output_file] = aggregate_profiles(sqlite)]
    /\ Log(<<R1("In8", sqlite_file), W1("In8", output_file)>>)
    /\ Goto1("In9")
    /\ UNCHANGED <<sqlite, platemap_df, frames, sel_stats, nb2vars>>

\* In[9], In[11], In[13], In[15], In[17]: read back what the step wrote.
ReadBack(cell, name, path, next) ==
    /\ pc1 = cell
    /\ IF fs[path].exists
       THEN /\ frames' = [frames EXCEPT ![name] = Frame(path, fs[path])]
            /\ Goto1(next)
       ELSE /\ Raise1(cell)
            /\ UNCHANGED frames
    /\ Log(<<R1(cell, path)>>)
    /\ UNCHANGED <<fs, sqlite, platemap_df, sel_stats, nb2vars>>

In9 == ReadBack("In9", "aggregated_df", output_file, "In10")

\* A library step of notebook 1: profiles read from path `from`, the result
\* written to path `to`; an error writes nothing.
Step(cell, from, result, to, next) ==
    /\ pc1 = cell
    /\ IF fs[from].exists /\ result.ok
       THEN /\ fs' = [fs EXCEPT ![to] = result.table]
            /\ Log(<<R1(cell, from), W1(cell, to)>>)
            /\ Goto1(next)
       ELSE /\ Raise1(cell)
            /\ Log(<<R1(cell, from)>>)
            /\ UNCHANGED fs
    /\ UNCHANGED <<sqlite, platemap_df, frames, sel_stats, nb2vars>>

\* In[10]: annotate(profiles=output_file, platemap=platemap_df, ...)
In10 == Step("In10", output_file,
             annotate(fs[output_file], platemap_df.table, annotate_join_on),
             annotate_file, "In11")
In11 == ReadBack("In11", "annotated_df", annotate_file, "In12")

\* In[12]: normalize(profiles=annotate_file, samples=..., method="standardize")
In12 == Step("In12", annotate_file,
             normalize(fs[annotate_file], normalize_samples, "standardize"),
             normalize_file, "In13")
In13 == ReadBack("In13", "normalized_df", normalize_file, "In14")

\* In[14]: feature_select(profiles=normalize_file, operation=feature_select_opts)
In14 == Step("In14", normalize_file,
             [ok |-> TRUE, table |-> feature_select(fs[normalize_file], sel_stats, feature_select_opts)],
             feature_select_file, "In15")
In15 == ReadBack("In15", "feature_select_df", feature_select_file, "In16")

\* In[16]: consensus(profiles=feature_select_df, ...)
\* the level 4a table handed to consensus
consensus_profiles_normalized == frames.normalized_df
consensus_profiles == frames.feature_select_df
In16 ==
    /\ pc1 = "In16"
    /\ fs' = [fs EXCEPT ![consensus_file] =
                 consensus(consensus_profiles.table, replicate_columns, "modz")]
    /\ Log(<<Event(1, "In16", "arg", consensus_profiles.from), W1("In16", consensus_file)>>)
    /\ Goto1("In17")
    /\ UNCHANGED <<sqlite, platemap_df, frames, sel_stats, nb2vars>>
In17 == ReadBack("In17", "consensus_df", consensus_file, "done")

Nb1 == In4 \/ In7 \/ In8 \/ In9 \/ In10 \/ In11 \/ In12 \/ In13 \/ In14 \/ In15 \/ In16 \/ In17

(***************************************************************************)
(* Notebook 2.                                                             *)
(***************************************************************************)
url == "https://github.com/broadinstitute/cell-health/raw/07e4b40c39dd27084be36fbef4d64c5654b2960f/1.generate-profiles/data/processed/cell_health_profiles_merged.tsv.gz"

CellLineSeq == <<"A549", "ES2">>
CellLines == Range(CellLineSeq)
PertSeq == <<"Luc-1", "MYC-1", "EMPTY-1">>
Perts == Range(PertSeq)
\* the gene a guide targets; the guide EMPTY-1 has none
GeneOf(p) == CASE p = "Luc-1" -> "Luc" [] p = "MYC-1" -> "MYC" [] OTHER -> NA
GritValues == {Missing} \cup {Val(g) : g \in 1..MaxGrit}

cell_line_col == <<"Metadata", "cell_line">>
barcode_col == <<"Metadata", "pert_name">>
gene_col == <<"Metadata", "gene_name">>
replicate_groups == {<<"Metadata", "clone_number">>, <<"Metadata", "treatment">>}
replicate_group_grit == [profile_col |-> barcode_col, replicate_group_col |-> gene_col]
control_group_cut == {"Chr2", "Luc", "LacZ"}

\* The table behind the URL: one row per (cell line, guide) drawn.
UrlTable(u) ==
    Table({cell_line_col, barcode_col, gene_col} \cup FeatureUniverse,
          [i \in 1..Len(u.rows) |->
              (cell_line_col :> u.rows[i][1]) @@
              (barcode_col :> u.rows[i][2]) @@
              (gene_col :> GeneOf(u.rows[i][2])) @@
              [c \in FeatureUniverse |-> 1]])

Raise2(cell) == pc2' = "aborted" /\ err2' = cell
Goto2(cell) == pc2' = cell /\ err2' = err2
R2(cell, path) == Event(2, cell, "read", path)

\* In[2]: profile_df = pd.read_csv(profile_file)
Nb2In2 ==
    /\ pc2 = "In2"
    /\ IF fs[profile_file].exists
       THEN /\ profile_df' = Frame(profile_file, fs[profile_file])
            /\ Goto2("In3")
       ELSE /\ Raise2("In2")
            /\ UNCHANGED profile_df
    /\ Log(<<R2("In2", profile_file)>>)
    /\ UNCHANGED <<fs, nb1vars, evals, url_data, df, features,
                   control_barcodes_cut, todo, grit_results>>

\* In[3]: meta_features, morphology_features
Nb2In3 ==
    /\ pc2 = "In3"
    /\ features' = [features EXCEPT
           !.meta_features = infer_meta_features(profile_df.table.cols),
           !.morphology_features = infer_cp_features(profile_df.table.cols)]
    /\ Goto2("In5")
    /\ UNCHANGED <<fs, io, nb1vars, profile_df, evals, url_data, df,
                   control_barcodes_cut, todo, grit_results>>

\* evaluate(profiles=..., operation=...) of In[5] and In[6]: the call, with
\* the table it is given.
Evaluation(operation, profiles) ==
    [operation |-> operation, profiles |-> profiles,
     features |-> features.morphology_features,
     meta_features |-> features.meta_features,
     replicate_groups |-> replicate_groups]

evaluate_profiles == profile_df

\* In[5]: replicate reproducibility; In[6]: enrichment
Nb2Evaluate(cell, operation, next) ==
    /\ pc2 = cell
    /\ evals' = Append(evals, Evaluation(operation, evaluate_profiles.table))
    /\ Log(<<Event(2, cell, "arg", evaluate_profiles.from)>>)
    /\ Goto2(next)
    /\ UNCHANGED <<fs, nb1vars, profile_df, url_data, df, features,
                   control_barcodes_cut, todo, grit_results>>

Nb2In5 == Nb2Evaluate("In5", "replicate_reproducibility", "In6")
Nb2In6 == Nb2Evaluate("In6", "enrichment", "In7")

\* In[7]: df = pd.read_csv(url, sep="\t")
Nb2In7 ==
    /\ pc2 = "In7"
    /\ IF url_data.exists
       THEN /\ df' = UrlTable(url_data)
            /\ Goto2("In8")
       ELSE /\ Raise2("In7")
            /\ UNCHANGED df
    /\ Log(<<R2("In7", url)>>)
    /\ UNCHANGED <<fs, nb1vars, profile_df, evals, url_data, features,
                   control_barcodes_cut, todo, grit_results>>

\* In[8]: df = feature_select(profiles=df, operation=feature_select_ops, na_cutoff=0)
Nb2In8 ==
    /\ pc2 = "In8"
    /\ df' = feature_select(df, url_data.stats, feature_select_ops)
    /\ features' = [features EXCEPT
           !.features = infer_cp_features(df'.cols),
           !.meta_features = infer_meta_features(df'.cols)]
    /\ Goto2("In9")
    /\ UNCHANGED <<fs, io, nb1vars, profile_df, evals, url_data,
                   control_barcodes_cut, todo, grit_results>>

\* In[9]: the guides of the control genes
Nb2In9 ==
    /\ pc2 = "In9"
    /\ control_barcodes_cut' =
           Unique(ColumnOf(SelectSeq(df.rows,
                      LAMBDA r : r[replicate_group_grit.replicate_group_col] \in control_group_cut),
                  replicate_group_grit.profile_col))
    /\ Goto2("In10")
    /\ UNCHANGED <<fs, io, nb1vars, profile_df, evals, url_data, df, features,
                   todo, grit_results>>

\* evaluate(operation="grit"): one row per guide of the profiles that is not
\* a control guide, with its gene as the group and its score; the scores
\* are drawn with the data.
perturbation_col == <<"", "perturbation">>
group_col == <<"", "group">>
grit_col == <<"", "grit">>
result_cell_line_col == <<"", "cell_line">>

evaluate_grit(profiles, cell_line, control_perts) ==
    LET ids == SelectSeq(Unique(ColumnOf(profiles, barcode_col)),
                         LAMBDA p : p \notin Range(control_perts))
    IN [i \in 1..Len(ids) |->
           (perturbation_col :> Val(ids[i])) @@
           (group_col :> IF GeneOf(ids[i]) = NA THEN Missing ELSE Val(GeneOf(ids[i]))) @@
           (grit_col :> url_data.score[<<cell_line, ids[i]>>])]

\* result.assign(cell_line=cell_line)
assign_cell_line(result, cell_line) ==
    [i \in 1..Len(result) |-> result[i] @@ (result_cell_line_col :> Val(cell_line))]

\* what the loop body leaves in df: it binds no new value to it
loop_df(d, cell_line) == d

\* the for statement of In[10]: grit_results = [], iterate over unique()
Nb2In10 ==
    /\ pc2 = "In10"
    /\ grit_results' = <<>>
    /\ todo' = Unique(ColumnOf(df.rows, cell_line_col))
    /\ Goto2("In10_for")
    /\ UNCHANGED <<fs, io, nb1vars, profile_df, evals, url_data, df, features,
                   control_barcodes_cut>>

\* one iteration of the loop
Nb2GritIter ==
    /\ pc2 = "In10_for"
    /\ todo # <<>>
    /\ LET cell_line == Head(todo)
           profiles == SelectSeq(df.rows, LAMBDA r : r[cell_line_col] = cell_line)
           result == evaluate_grit(profiles, cell_line, control_barcodes_cut)
       IN /\ grit_results' = Append(grit_results, assign_cell_line(result, cell_line))
          /\ df' = loop_df(df, cell_line)
    /\ todo' = Tail(todo)
    /\ Goto2("In10_for")
    /\ UNCHANGED <<fs, io, nb1vars, profile_df, evals, url_data, features,
                   control_barcodes_cut>>

IsNA(v) == v.na
HasNA(r) == \E c \in DOMAIN r : IsNA(r[c])

\* the sort left out
sort_values_none(rows) == rows

\* sort_values(by="grit", ascending=False): the rows with a grit score in
\* non-increasing order of it, then (na_position="last") the rows without
\* one.  Rows of equal score keep the order they come in: the default
\* kind="quicksort" promises no order among them, and on tables of the
\* sizes drawn here numpy sorts by insertion, which keeps it.
sort_values(rows) ==
    LET scored == SelectSeq(rows, LAMBDA r : ~IsNA(r[grit_col]))
        missing == SelectSeq(rows, LAMBDA r : IsNA(r[grit_col]))
        WithScore(g) == SelectSeq(scored, LAMBDA r : r[grit_col].v = g)
    IN Concat([k \in 1..MaxGrit |-> WithScore(MaxGrit + 1 - k)]) \o missing

\* dropna(subset=["grit"])
dropna_grit_only(labelled) == SelectSeq(labelled, LAMBDA x : ~IsNA(x.row[grit_col]))

\* reset_index(drop=True) numbers the rows 0..n-1; dropna() removes the
\* rows with a missing value in any column and keeps the labels of the rest.
reset_index(rows) == [i \in 1..Len(rows) |-> [index |-> i - 1, row |-> rows[i]]]
dropna(labelled) == SelectSeq(labelled, LAMBDA x : ~HasNA(x.row))

\* the merge of In[10]: concat, sort, reset_index, dropna
Nb2Merge ==
    /\ pc2 = "In10_for"
    /\ todo = <<>>
    /\ IF grit_results = <<>>
       THEN /\ Raise2("In10")
            /\ UNCHANGED grit_results
       ELSE /\ grit_results' = dropna(reset_index(sort_values(Concat(grit_results))))
            /\ Goto2("done")
    /\ UNCHANGED <<fs, io, nb1vars, profile_df, evals, url_data, df, features,
                   control_barcodes_cut, todo>>

Nb2 == Nb2In2 \/ Nb2In3 \/ Nb2In5 \/ Nb2In6 \/ Nb2In7 \/ Nb2In8 \/ Nb2In9
       \/ Nb2In10 \/ Nb2GritIter \/ Nb2Merge

(***************************************************************************)
(* Inputs and initial states.                                              *)
(***************************************************************************)
PlatemapCols == {<<"", "well_position">>, <<"", "treatment">>, <<"", "clone_number">>}
PlatemapRow(w, t, k) ==
    (<<"", "well_position">> :> w) @@ (<<"", "treatment">> :> t) @@ (<<"", "clone_number">> :> k)
PlatemapRows == {PlatemapRow(w, t, k) : w \in Wells, t \in Treatments, k \in Clones}
Platemaps == {Table(PlatemapCols, rows) : rows \in SeqUpTo(PlatemapRows, MaxPlatemapRows)}

\* the single-cell store: absent, or per well whether it holds a cell
\* (n, 0 or 1) and the median of its cells
Sqlites ==
    {[exists |-> FALSE, n |-> [w \in Wells |-> 0], med |-> [w \in Wells |-> 1]]}
    \cup UNION {{[exists |-> TRUE, n |-> n, med |-> m] :
                    m \in {x \in [Wells -> Values] : \A w \in Wells : n[w] = 0 => x[w] = 1}} :
                 n \in [Wells -> {0, 1}]}

NoStats == [rule |-> [c \in FeatureUniverse |-> "none"],
            corr |-> [p \in Pairs(FeatureUniverse) |-> 0]]
FewStats ==
    {NoStats,
     [NoStats EXCEPT !.rule[FeatureSeq[1]] = "blocklist"],
     [NoStats EXCEPT !.corr[{FeatureSeq[1], FeatureSeq[2]}] = MaxCorr,
                     !.rule[FeatureSeq[3]] = "variance_threshold"]}

NoUrl == [exists |-> FALSE, rows |-> <<>>, stats |-> NoStats,
          score |-> [k \in CellLines \X Perts |-> Missing]]
\* the sequences over S of length at most n that hold no element twice
DistinctSeqUpTo(S, n) == {q \in SeqUpTo(S, n) : \A i, j \in DOMAIN q : q[i] = q[j] => i = j}
Scored(rows) == {k \in Range(rows) : GeneOf(k[2]) \notin control_group_cut}

\* the Cell Health table, one row per (cell line, guide) it holds, with the
\* scores of the guides that get one
Urls(statsSet) ==
    UNION {{[exists |-> TRUE, rows |-> rows, stats |-> st, score |-> sc] :
               st \in statsSet,
               sc \in {x \in [CellLines \X Perts -> GritValues] :
                          \A k \in CellLines \X Perts : k \notin Scored(rows) => x[k] = Missing}} :
           rows \in DistinctSeqUpTo(CellLines \X Perts, MaxDfRows)}
OneUrl == [exists |-> TRUE, rows |-> << <<"A549", "MYC-1">>, <<"A549", "Luc-1">> >>,
           stats |-> NoStats,
           score |-> [k \in CellLines \X Perts |-> IF k = <<"A549", "MYC-1">> THEN Val(1) ELSE Missing]]

EmptyFs == [p \in Paths |-> NoFile]
NoFrames == [cell_count_df |-> Unset, aggregated_df |-> Unset, annotated_df |-> Unset,
             normalized_df |-> Unset, feature_select_df |-> Unset, consensus_df |-> Unset]
NoFeatures == [meta_features |-> {}, morphology_features |-> {}, features |-> {}]

Start1 ==
    /\ pc1 = "In4" /\ err1 = ""
    /\ platemap_df = Unset /\ frames = NoFrames
Start2 ==
    /\ pc2 = "In2" /\ err2 = ""
    /\ profile_df = Unset /\ evals = <<>> /\ df = Unset /\ features = NoFeatures
    /\ control_barcodes_cut = <<>> /\ todo = <<>> /\ grit_results = <<>>

Idle1 ==
    /\ pc1 = "idle" /\ err1 = ""
    /\ platemap_df = Unset /\ frames = NoFrames
Idle2 ==
    /\ pc2 = "idle" /\ err2 = ""
    /\ profile_df = Unset /\ evals = <<>> /\ df = Unset /\ features = NoFeatures
    /\ control_barcodes_cut = <<>> /\ todo = <<>> /\ grit_results = <<>>

FreshFs == {[EmptyFs EXCEPT ![platemap_file] = f] : f \in Platemaps \cup {NoFile}}
FewSqlites == {q \in Sqlites : q.exists => (q.n = [w \in Wells |-> 1] /\ q.med = [w \in Wells |-> IF w = WellSeq[1] THEN 1 ELSE 2])}
OneStats == [NoStats EXCEPT !.corr[{FeatureSeq[1], FeatureSeq[2]}] = MaxCorr,
                            !.rule[FeatureSeq[3]] = "variance_threshold"]

\* Both notebooks, started on a fresh output directory and run side by
\* side: nothing but the files orders a cell of one against the other's.
Init ==
    /\ Start1 /\ Start2 /\ io = <<>>
    /\ fs \in FreshFs
    /\ sqlite \in FewSqlites
    /\ sel_stats = OneStats
    /\ url_data \in {NoUrl, OneUrl}

Next == Nb1 \/ Nb2
Spec == Init /\ [][Next]_vars

\* Notebook 1 alone, on every store and platemap of the bounds.
InitProfile ==
    /\ Start1 /\ Idle2 /\ io = <<>>
    /\ fs \in FreshFs
    /\ sqlite \in Sqlites
    /\ sel_stats \in FewStats
    /\ url_data = NoUrl

SpecProfile == InitProfile /\ [][Nb1]_vars

\* a level 4b table left by an earlier run of notebook 1
SampleSqlite == [exists |-> TRUE, n |-> [w \in Wells |-> 1],
                 med |-> [w \in Wells |-> IF w = WellSeq[1] THEN 1 ELSE 2]]
SamplePlatemap == Table(PlatemapCols, [i \in 1..Len(WellSeq) |->
                      PlatemapRow(WellSeq[i], "0.1% DMSO", "WT")])
SampleAnnotated == annotate(aggregate_profiles(SampleSqlite), SamplePlatemap, annotate_join_on).table
SampleNormalized == normalize(SampleAnnotated, normalize_samples, "standardize").table
SampleProfile == feature_select(SampleNormalized, OneStats, feature_select_opts)

\* Notebook 2 alone: the profile file is there or not, and the Cell Health
\* table is any table of the bounds with any scores.
InitEval ==
    /\ Idle1 /\ Start2 /\ io = <<>>
    /\ fs \in {EmptyFs, [EmptyFs EXCEPT ![profile_file] = SampleProfile]}
    /\ sqlite = SampleSqlite
    /\ sel_stats = OneStats
    /\ url_data \in {NoUrl} \cup Urls({OneStats})

SpecEval == InitEval /\ [][Nb2]_vars

\* The normalize step on its own, re-run from its input file: an annotated
\* table of 3 wells x 2 replicates with one feature column.
ScenarioWells == <<"A01", "A01", "A02", "A02", "A03", "A03">>
ScenarioCols == {<<"Metadata", "Well">>, <<"Metadata", "treatment">>, FeatureSeq[1]}
ScenarioTable(vals, trts) ==
    Table(ScenarioCols,
          [i \in DOMAIN ScenarioWells |->
              (<<"Metadata", "Well">> :> ScenarioWells[i]) @@
              (<<"Metadata", "treatment">> :> trts[i]) @@
              (FeatureSeq[1] :> vals[i])])

InitNorm ==
    /\ pc1 = "In12" /\ err1 = "" /\ platemap_df = Unset /\ frames = NoFrames
    /\ Idle2 /\ io = <<>>
    /\ \E vals \in [DOMAIN ScenarioWells -> Values], trts \in [DOMAIN ScenarioWells -> Treatments] :
          fs = [EmptyFs EXCEPT ![annotate_file] = ScenarioTable(vals, trts)]
    /\ sqlite = SampleSqlite
    /\ sel_stats = OneStats
    /\ url_data = NoUrl

SpecNorm == InitNorm /\ [][In12]_vars

\* The two feature selections on their own, on every statistics of the
\* bounds: In[14] of notebook 1 re-run from the normalized file, In[8] of
\* notebook 2 on a Cell Health table.
InitSelect ==
    /\ pc1 = "In14" /\ err1 = "" /\ platemap_df = Unset /\ frames = NoFrames
    /\ pc2 = "In8" /\ err2 = ""
    /\ profile_df = Unset /\ evals = <<>> /\ features = NoFeatures
    /\ control_barcodes_cut = <<>> /\ todo = <<>> /\ grit_results = <<>>
    /\ io = <<>>
    /\ fs = [EmptyFs EXCEPT ![normalize_file] = SampleNormalized]
    /\ sqlite = SampleSqlite
    /\ sel_stats \in StatsOver(FeatureUniverse)
    /\ url_data = [OneUrl EXCEPT !.stats = sel_stats]
    /\ df = UrlTable(url_data)

SpecSelect == InitSelect /\ [][In14 \/ Nb2In8]_vars

(***************************************************************************)
(* The stages and their files.                                             *)
(***************************************************************************)
CellSeq1 == <<"In4", "In7", "In8", "In9", "In10", "In11", "In12", "In13",
              "In14", "In15", "In16", "In17">>
CellSeq2 == <<"In2", "In3", "In5", "In6", "In7", "In8", "In9", "In10">>
Pos(seq, cell) == CHOOSE i \in DOMAIN seq : seq[i] = cell

\* the cell of notebook 1 that writes each output file
WriterOf == (cell_count_file :> "In7") @@ (output_file :> "In8") @@
            (annotate_file :> "In10") @@ (normalize_file :> "In12") @@
            (feature_select_file :> "In14") @@ (consensus_file :> "In16")
OutputFiles == <<cell_count_file, output_file, annotate_file, normalize_file,
                 feature_select_file, consensus_file>>

Inputs(nb, cell) ==
    {i \in DOMAIN io : io[i].nb = nb /\ io[i].cell = cell /\ io[i].op \in {"read", "arg"}}
WrittenBefore(i, cell, path) ==
    \E j \in 1..(i - 1) : io[j] = W1(cell, path)

\* Stage `cell` of notebook `nb` took its profiles from `path`, which the
\* stage `writer` had written before.
TakesFrom(nb, cell, writer, path) ==
    \A i \in Inputs(nb, cell) : io[i].path = path /\ WrittenBefore(i, writer, path)

(***************************************************************************)
(* C1 (as amended): annotate, normalize, feature-select and consensus each *)
(* take as input exactly the file written by the stage before them, after  *)
(* that stage wrote it; the evaluator's replicate-reproducibility and      *)
(* enrichment calls take the feature-select stage's file (not the          *)
(* consensus stage's), after the feature-select stage wrote it.            *)
(***************************************************************************)
C1_StagesChainAndEvaluateReadsFeatureSelect ==
    /\ TakesFrom(1, "In10", "In8", output_file)
    /\ TakesFrom(1, "In12", "In10", annotate_file)
    /\ TakesFrom(1, "In14", "In12", normalize_file)
    /\ TakesFrom(1, "In16", "In14", feature_select_file)
    /\ TakesFrom(2, "In5", "In14", feature_select_file)
    /\ TakesFrom(2, "In6", "In14", feature_select_file)
    /\ frames.feature_select_df.set => frames.feature_select_df.table = fs[feature_select_file]
    /\ \A k \in DOMAIN evals : evals[k].profiles = fs[feature_select_file]

\* C1 as stated: once the pipeline has finished, the evaluator's calls run
\* on the final profile table of the pipeline, the consensus stage's output.
C1_EvaluateReadsFinalTable ==
    pc1 = "done" =>
        /\ TakesFrom(2, "In5", "In16", consensus_file)
        /\ TakesFrom(2, "In6", "In16", consensus_file)
        /\ \A k \in DOMAIN evals : evals[k].profiles = fs[consensus_file]

C1_Witness ==
    /\ pc1 = "done"
    /\ Len(evals) = 2
    /\ Inputs(1, "In16") # {}

(***************************************************************************)
(* C2: no file is written twice, the six output paths are distinct, no     *)
(* stage writes the path it reads, and notebook 2 writes no file.          *)
(***************************************************************************)
C2_NoFileWrittenTwice ==
    /\ \A i, j \in DOMAIN io :
          (io[i].op = "write" /\ io[j].op = "write" /\ io[i].path = io[j].path) => i = j
    /\ \A i, j \in DOMAIN io :
          (io[i].op = "write" /\ io[j].op # "write"
            /\ io[i].nb = io[j].nb /\ io[i].cell = io[j].cell) => io[i].path # io[j].path
    /\ \A i \in DOMAIN io : io[i].op = "write" =>
          /\ io[i].nb = 1
          /\ io[i].path \in DOMAIN WriterOf
          /\ WriterOf[io[i].path] = io[i].cell
          /\ fs[io[i].path].exists
    /\ Cardinality(Range(OutputFiles)) = Len(OutputFiles)

C2_Witness ==
    /\ pc1 = "done"
    /\ \A i \in DOMAIN OutputFiles : fs[OutputFiles[i]].exists
    /\ pc2 = "done"

(***************************************************************************)
(* C3: a failed cell ends its notebook's run: the notebook is aborted at   *)
(* that cell, no cell after it has run or written its file, the failed     *)
(* stage wrote no output, and no cell ran twice; a joined row holds the    *)
(* platemap's values for its own well, never a default.                    *)
(***************************************************************************)
JoinedOnWell(t, key) ==
    \A i \in DOMAIN t.rows : t.rows[i][key] = t.rows[i][<<"Metadata", "Well">>]

RanOnce(nb) ==
    \A i, j \in DOMAIN io :
        (io[i].nb = nb /\ io[j].nb = nb /\ i < j /\ io[i].cell = io[j].cell)
            => (j = i + 1 /\ io[i].op # io[j].op)
NothingAfter(nb, seq, cell) ==
    \A i \in DOMAIN io : io[i].nb = nb => Pos(seq, io[i].cell) <= Pos(seq, cell)

C3_Witness2 == err2 = "In7" /\ Len(evals) = 2

(***************************************************************************)
(* Row counts of the joins.                                                *)
(***************************************************************************)
KeyUnique(pmap) ==
    \A i, j \in DOMAIN pmap.rows :
        pmap.rows[i][<<"", "well_position">>] = pmap.rows[j][<<"", "well_position">>] => i = j
KeyCovers(pmap, t) ==
    \A i \in DOMAIN t.rows : \E j \in DOMAIN pmap.rows :
        pmap.rows[j][<<"", "well_position">>] = t.rows[i][<<"Metadata", "Well">>]
WellsDistinct(t) ==
    \A i, j \in DOMAIN t.rows :
        t.rows[i][<<"Metadata", "Well">>] = t.rows[j][<<"Metadata", "Well">>] => i = j

(***************************************************************************)
(* C4: with a join key unique in the platemap, the cell-count table merged *)
(* with the platemap has as many rows as the cell-count table, and the     *)
(* annotated table as many rows as the aggregated one.  The inner join of  *)
(* In[7] breaks it: a well with cells that the platemap does not hold is   *)
(* dropped, and the cell goes on without an error.                         *)
(***************************************************************************)
C4_RowCountEqualWhenKeyUnique ==
    (platemap_df.set /\ KeyUnique(platemap_df.table)) =>
        /\ frames.cell_count_df.set =>
              NRows(frames.cell_count_df.table) = NRows(count_cells(sqlite))
        /\ fs[annotate_file].exists =>
              NRows(fs[annotate_file]) = NRows(fs[output_file])

(***************************************************************************)
(* What the joins do keep of C4: with a join key unique in the platemap no *)
(* row is duplicated, the merged cell-count table and the annotated table  *)
(* have at most as many rows as their left input, one per well, and        *)
(* exactly as many on the inputs in which every well of the left input     *)
(* occurs in the platemap.                                                 *)
(***************************************************************************)
C4_NoFanOutAndEqualWhenCovered ==
    (platemap_df.set /\ KeyUnique(platemap_df.table)) =>
        /\ frames.cell_count_df.set =>
              /\ NRows(frames.cell_count_df.table) <= NRows(count_cells(sqlite))
              /\ WellsDistinct(frames.cell_count_df.table)
              /\ KeyCovers(platemap_df.table, count_cells(sqlite)) =>
                    NRows(frames.cell_count_df.table) = NRows(count_cells(sqlite))
        /\ fs[annotate_file].exists =>
              /\ NRows(fs[annotate_file]) <= NRows(fs[output_file])
              /\ WellsDistinct(fs[annotate_file])
              /\ KeyCovers(platemap_df.table, fs[output_file]) =>
                    NRows(fs[annotate_file]) = NRows(fs[output_file])

C4_Witness ==
    /\ platemap_df.set /\ KeyUnique(platemap_df.table)
    /\ NRows(platemap_df.table) = Cardinality(Wells)
    /\ frames.cell_count_df.set /\ NRows(frames.cell_count_df.table) = Cardinality(Wells)
    /\ fs[annotate_file].exists /\ NRows(fs[annotate_file]) = Cardinality(Wells)

(***************************************************************************)
(* C5: with no control row in the annotated table the normalize stage      *)
(* fails and writes nothing; otherwise every feature value of every row is *)
(* standardized with the statistics of the control rows alone.             *)
(***************************************************************************)
ControlRows(t) ==
    SelectSeq(t.rows, LAMBDA r : r[<<"Metadata", "treatment">>] = "0.1% DMSO")
PastNormalize == pc1 \in {"In13", "In14", "In15", "In16", "In17", "done"}

C5_EmptyControlFailsElseControlStatistics ==
    /\ (fs[annotate_file].exists /\ ControlRows(fs[annotate_file]) = <<>>) =>
          /\ ~fs[normalize_file].exists
          /\ ~PastNormalize
          /\ pc1 \in {"In11", "In12"} \/ (pc1 = "aborted" /\ err1 = "In12")
    /\ fs[normalize_file].exists =>
          LET a == fs[annotate_file]
              z == fs[normalize_file]
          IN /\ ControlRows(a) # <<>>
             /\ NRows(z) = NRows(a)
             /\ \A i \in DOMAIN a.rows : \A c \in infer_cp_features(a.cols) :
                   z.rows[i][c] = Standardize(a.rows[i][c], ColumnOf(ControlRows(a), c))

C5_Witness ==
    /\ fs[annotate_file].exists /\ ControlRows(fs[annotate_file]) = <<>>
    /\ pc1 = "aborted" /\ err1 = "In12"

\* C5, the other case: controls and non-controls, and a normalized file.
C5_Witness2 ==
    /\ fs[normalize_file].exists
    /\ Len(ControlRows(fs[annotate_file])) < NRows(fs[annotate_file])

(***************************************************************************)
(* C6: at every stage boundary the feature columns of the output are a     *)
(* subset of the feature columns of the input.                             *)
(***************************************************************************)
FeatureColumns(path) == infer_cp_features(fs[path].cols)
Boundary(in, out) == fs[out].exists => FeatureColumns(out) \subseteq FeatureColumns(in)

C6_FeatureColumnsOnlyShrink ==
    /\ Boundary(output_file, annotate_file)
    /\ Boundary(annotate_file, normalize_file)
    /\ Boundary(normalize_file, feature_select_file)
    /\ Boundary(feature_select_file, consensus_file)

C6_Witness ==
    /\ fs[consensus_file].exists
    /\ FeatureColumns(consensus_file) # {}
    /\ FeatureColumns(feature_select_file) # FeatureColumns(normalize_file)

(***************************************************************************)
(* The grit table.  The rows the loop is to produce, from the Cell Health  *)
(* table as loaded: for a cell line, one row per guide of its rows that is *)
(* no guide of a control gene, with the guide's gene, the score drawn for  *)
(* it and the cell line.                                                   *)
(***************************************************************************)
ExpectedRow(cl, p) ==
    (perturbation_col :> Val(p)) @@
    (group_col :> IF GeneOf(p) = NA THEN Missing ELSE Val(GeneOf(p))) @@
    (grit_col :> url_data.score[<<cl, p>>]) @@
    (result_cell_line_col :> Val(cl))
ExpectedOf(cl) ==
    LET mine == SelectSeq(url_data.rows, LAMBDA x : x[1] = cl /\ GeneOf(x[2]) \notin control_group_cut)
        ids == Unique([i \in 1..Len(mine) |-> mine[i][2]])
    IN [i \in 1..Len(ids) |-> ExpectedRow(cl, ids[i])]
LinesPresent == {url_data.rows[i][1] : i \in DOMAIN url_data.rows}
\* the cell lines in a fixed order, and in the order the loop takes them
FixedOrder == SelectSeq(CellLineSeq, LAMBDA cl : cl \in LinesPresent)
LoopOrder == Unique([i \in DOMAIN url_data.rows |-> url_data.rows[i][1]])
ExpectedIn(order) == Concat([i \in 1..Len(order) |-> ExpectedOf(order[i])])

FinalRows == [i \in 1..Len(grit_results) |-> grit_results[i].row]
GritDescending(rows) ==
    \A i \in 1..(Len(rows) - 1) : rows[i][grit_col].v >= rows[i + 1][grit_col].v
NoRowTwice(rows) == \A i, j \in DOMAIN rows : rows[i] = rows[j] => i = j

SelectedDf == feature_select(UrlTable(url_data), url_data.stats, feature_select_ops)

C7_SelectionIdempotent ==
    /\ fs[feature_select_file].exists =>
          feature_select(fs[feature_select_file], sel_stats, feature_select_opts)
              = fs[feature_select_file]
    /\ pc2 = "In9" =>
          feature_select(df, url_data.stats, feature_select_ops) = df

C7_Witness ==
    /\ fs[feature_select_file].exists
    /\ pc2 = "In9"
    /\ Cardinality(FeatureColumns(feature_select_file)) = 1
    /\ infer_cp_features(df.cols) # FeatureColumns(feature_select_file)
    /\ \E p \in Pairs(FeatureUniverse) : sel_stats.corr[p] = MaxCorr

(***************************************************************************)
(* The scenario of C9: values [1,1,1,2,2,2], the first three rows controls.*)
(***************************************************************************)
IsScenario(t) ==
    /\ ColumnOf(t.rows, FeatureSeq[1]) = <<1, 1, 1, 2, 2, 2>>
    /\ ColumnOf(t.rows, <<"Metadata", "treatment">>)
          = <<"0.1% DMSO", "0.1% DMSO", "0.1% DMSO", "drug", "drug", "drug">>
IsControl(r) == r[<<"Metadata", "treatment">>] = "0.1% DMSO"
Normalized(i) == fs[normalize_file].rows[i][FeatureSeq[1]]

\* C9 as stated: in the scenario the control rows standardize to 0 and the
\* other rows to a well defined, positive (2 - mean)/std of the control rows.
C9_ScenarioWellDefined ==
    (fs[normalize_file].exists /\ IsScenario(fs[annotate_file])) =>
        \A i \in DOMAIN fs[annotate_file].rows :
            /\ Normalized(i).den2 > 0
            /\ IF IsControl(fs[annotate_file].rows[i])
               THEN Normalized(i).num = 0
               ELSE Normalized(i).num > 0

(***************************************************************************)
(* C9 (as amended): in the scenario the control rows have mean 1 and       *)
(* standard deviation 0, so (x - mean)/std is not defined; the centred     *)
(* values are 0 for the control rows and positive (2 - mean) for the       *)
(* others, with the mean of the control rows only.  Whenever the control   *)
(* rows do not all hold one value, the standardized control values have    *)
(* mean 0 and variance 1, and a row has a positive standardized value      *)
(* exactly when its value is above the control mean.                       *)
(***************************************************************************)
C9_ScenarioStdZeroElseStandardized ==
    fs[normalize_file].exists =>
        LET a == fs[annotate_file]
            ctl == {i \in DOMAIN a.rows : IsControl(a.rows[i])}
            ctlSeq == SelectSeq([i \in DOMAIN a.rows |-> i], LAMBDA i : i \in ctl)
            n == Cardinality(ctl)
            S == SumSeq([k \in DOMAIN ctlSeq |-> a.rows[ctlSeq[k]][FeatureSeq[1]]])
        IN /\ IsScenario(a) =>
                 \A i \in DOMAIN a.rows :
                    /\ Normalized(i).den2 = 0
                    /\ Normalized(i).num = IF i \in ctl THEN 0 ELSE n * (2 - 1)
           /\ \A i \in DOMAIN a.rows :
                 /\ Normalized(i).num = n * a.rows[i][FeatureSeq[1]] - S
                 /\ Normalized(i).den2 >= 0
                 /\ Normalized(i).den2 = Normalized(ctlSeq[1]).den2
           /\ Normalized(ctlSeq[1]).den2 > 0 =>
                 /\ SumSeq([k \in DOMAIN ctlSeq |-> Normalized(ctlSeq[k]).num]) = 0
                 /\ SumSeq([k \in DOMAIN ctlSeq |->
                        Normalized(ctlSeq[k]).num * Normalized(ctlSeq[k]).num])
                       = n * Normalized(ctlSeq[1]).den2

C9_Witness ==
    /\ fs[normalize_file].exists
    /\ IsScenario(fs[annotate_file])
    /\ pc1 = "In13"
====
